---- MODULE Spec2Model ----
(***************************************************************************)
(* The vote-tally store of the Ethereum bridge                             *)
(* (crates/ethereum_bridge/src/protocol/transactions/votes/storage.rs)     *)
(* and the read-modify-write helpers (.../transactions/update.rs), as a    *)
(* state machine over the key/value storage they act on.                   *)
(*                                                                         *)
(* The storage holds Borsh-serialised bytes: every write goes through a    *)
(* Ser* operator and every typed read through the matching De* operator.   *)
(***************************************************************************)
EXTENDS Integers, Sequences, FiniteSets, TLC

(***************************************************************************)
(* Bounds of the model.                                                    *)
(***************************************************************************)
\* The last epoch the chain advances to.
MaxEpoch == 1
\* The largest stake: the total stake of an epoch, and the summed amount of
\* a voting power given to write, range over 0..MaxStake.
MaxStake == 3

(***************************************************************************)
(* Values.                                                                 *)
(***************************************************************************)
\* The identities (events voted on) whose tallies the store holds.
Ids == {1, 2}

Epochs == 0 .. MaxEpoch

Amounts == 0 .. MaxStake

\* vote_tallies::Keys<T>: the five storage keys of an identity, under the
\* identity's own prefix.
FieldOrder == <<"body", "seen", "seen_by", "voting_power", "voting_started_epoch">>

Fields == {FieldOrder[i] : i \in 1 .. Len(FieldOrder)}

Keys(id) == [f \in Fields |-> <<id, f>>]

TallyKeys == {Keys(id)[f] : id \in Ids, f \in Fields}

\* The key of update.rs's test, outside every tally prefix.
ArbitraryKey == <<0, "some arbitrary key">>

AllKeys == TallyKeys \cup {ArbitraryKey}

(***************************************************************************)
(* Borsh serialisation: fixed-width little-endian integers, one byte for a *)
(* bool, a u32 length followed by the entries in key order for a map.      *)
(***************************************************************************)
\* The weights of the four low bytes: a number of the model is below 2^31,
\* so every higher byte of it is zero.
Weights == <<1, 256, 65536, 16777216>>

\* n >= 0 as w little-endian bytes.
LE(n, w) ==
    [i \in 1 .. w |-> IF i <= Len(Weights) THEN (n \div Weights[i]) % 256 ELSE 0]

\* The number whose little-endian bytes are bytes[from .. to].
RECURSIVE FromLERange(_, _, _)
FromLERange(bytes, from, to) ==
    IF from > to THEN 0
    ELSE bytes[from] + 256 * FromLERange(bytes, from + 1, to)

FromLE(bytes) == FromLERange(bytes, 1, Len(bytes))

DeserializationError == [ok |-> FALSE, err |-> "DeserializationError"]

NotFound == [ok |-> FALSE, err |-> "NotFound"]

Ok(v) == [ok |-> TRUE, val |-> v]

SerBool(b) == <<IF b THEN 1 ELSE 0>>

DeBool(bytes) ==
    IF Len(bytes) = 1 /\ bytes[1] \in {0, 1}
    THEN Ok(bytes[1] = 1)
    ELSE DeserializationError

SerU64(n) == LE(n, 8)

DeU64(bytes) ==
    IF Len(bytes) = 8 THEN Ok(FromLE(bytes)) ELSE DeserializationError

Complement(bytes) == [i \in 1 .. Len(bytes) |-> 255 - bytes[i]]

\* i32, two's complement: -n is the complement of n - 1.
SerI32(n) == IF n >= 0 THEN LE(n, 4) ELSE Complement(LE(-n - 1, 4))

DeI32(bytes) ==
    IF Len(bytes) = 4
    THEN Ok(IF bytes[4] >= 128 THEN -FromLE(Complement(bytes)) - 1
            ELSE FromLE(bytes))
    ELSE DeserializationError

\* token::Amount, a 256-bit unsigned integer.
SerAmount(a) == LE(a, 32)

DeAmount(bytes) ==
    IF Len(bytes) = 32 THEN Ok(FromLE(bytes)) ELSE DeserializationError

\* The keys of a map in increasing order (a BTreeMap iterates in key order).
RECURSIVE SortedSeq(_)
SortedSeq(S) ==
    IF S = {} THEN <<>>
    ELSE LET m == CHOOSE x \in S : \A y \in S : x <= y
         IN  <<m>> \o SortedSeq(S \ {m})

RECURSIVE SerEntries(_, _, _, _)
SerEntries(m, ks, kw, vw) ==
    IF ks = <<>> THEN <<>>
    ELSE LE(Head(ks), kw) \o LE(m[Head(ks)], vw)
         \o SerEntries(m, Tail(ks), kw, vw)

\* A BTreeMap whose keys take kw bytes and whose values take vw bytes.
SerMap(m, kw, vw) ==
    LE(Cardinality(DOMAIN m), 4) \o SerEntries(m, SortedSeq(DOMAIN m), kw, vw)

DeMap(bytes, kw, vw) ==
    IF Len(bytes) < 4 THEN DeserializationError
    ELSE LET n == FromLERange(bytes, 1, 4)
             at(i) == 4 + (i - 1) * (kw + vw)
             ks == [i \in 1 .. n |-> FromLERange(bytes, at(i) + 1, at(i) + kw)]
             vs == [i \in 1 .. n |->
                      FromLERange(bytes, at(i) + kw + 1, at(i) + kw + vw)]
         IN  IF Len(bytes) # 4 + n * (kw + vw) THEN DeserializationError
             ELSE IF \E i \in 1 .. n - 1 : ks[i] >= ks[i + 1]
             THEN DeserializationError
             ELSE Ok([k \in {ks[i] : i \in 1 .. n} |->
                        vs[CHOOSE i \in 1 .. n : ks[i] = k]])

\* EpochedVotingPower = BTreeMap<Epoch, Amount>.
SerVotingPower(vp) == SerMap(vp, 8, 32)

DeVotingPower(bytes) == DeMap(bytes, 8, 32)

\* Votes = BTreeMap<Address, BlockHeight>.
SerVotes(v) == SerMap(v, 21, 8)

DeVotes(bytes) == DeMap(bytes, 21, 8)

\* The body: EthereumEvent::TransfersToNamada { nonce, transfers: vec![] },
\* the variant's tag, the 256-bit nonce and the empty vector's length.
TransfersToNamadaTag == <<3>>

SerBody(nonce) == TransfersToNamadaTag \o LE(nonce, 32) \o LE(0, 4)

DeBody(bytes) ==
    IF Len(bytes) = 37 /\ SubSeq(bytes, 1, 1) = TransfersToNamadaTag
       /\ FromLERange(bytes, 34, 37) = 0
    THEN Ok(FromLERange(bytes, 2, 33))
    ELSE DeserializationError

\* T::try_from_slice and borsh::to_vec, by the type T of the call.
Decode(ty, bytes) ==
    CASE ty = "bool" -> DeBool(bytes)
      [] ty = "u64" -> DeU64(bytes)
      [] ty = "i32" -> DeI32(bytes)
      [] ty = "Amount" -> DeAmount(bytes)
      [] ty = "EpochedVotingPower" -> DeVotingPower(bytes)
      [] ty = "Votes" -> DeVotes(bytes)
      [] ty = "EthereumEvent" -> DeBody(bytes)

Encode(ty, v) ==
    CASE ty = "bool" -> SerBool(v)
      [] ty = "u64" -> SerU64(v)
      [] ty = "i32" -> SerI32(v)
      [] ty = "Amount" -> SerAmount(v)
      [] ty = "EpochedVotingPower" -> SerVotingPower(v)
      [] ty = "Votes" -> SerVotes(v)
      [] ty = "EthereumEvent" -> SerBody(v)

\* T::default() of the types the updates are called with.
Default(ty) ==
    CASE ty = "i32" -> 0
      [] ty = "Amount" -> 0
      [] ty = "EpochedVotingPower" -> [k \in {} |-> 0]

(***************************************************************************)
(* The inputs of the calls.                                                *)
(***************************************************************************)
None == <<>>

Some(v) == <<v>>

Unit == "()"

\* The events voted on, by nonce.
Bodies == {0, 1}

EmptyMap == [k \in {} |-> 0]

RECURSIVE SumOver(_, _)
SumOver(m, S) ==
    IF S = {} THEN 0
    ELSE LET k == CHOOSE x \in S : TRUE
         IN  m[k] + SumOver(m, S \ {k})

\* EpochedVotingPowerExt::tallied_stake: the sum of the amounts of every
\* recorded epoch.
tallied_stake(voting_power) == SumOver(voting_power, DOMAIN voting_power)

\* The voting powers handed to write: no vote, votes cast in epoch 0, votes
\* cast in epochs 0 and 1.
VotingPowers ==
    {EmptyMap, [e \in {0} |-> 1], [e \in {0} |-> 2], [e \in {0, 1} |-> 1]}

\* Votes: validator address -> block height of the vote.
VotesSet == {EmptyMap, [a \in {1} |-> 10]}

Tally(voting_power, seen_by, seen) ==
    [voting_power |-> voting_power, seen_by |-> seen_by, seen |-> seen]

\* The tallies handed to write: nobody has seen an event nobody voted on.
Tallies ==
    {t \in [voting_power : VotingPowers, seen_by : VotesSet, seen : BOOLEAN] :
        t.seen => t.seen_by # EmptyMap}

(***************************************************************************)
(* State.                                                                  *)
(***************************************************************************)
VARIABLES
    storage,        \* wl_storage: the present keys and their bytes
    current_epoch,  \* wl_storage.storage.get_current_epoch()
    total_stake,    \* the total stake bonded at the current epoch
    call,           \* the last call: operation, identity, arguments, result
    written,        \* history: per identity, the arguments of its last write
                    \* since its last delete (none: the empty set)
    quorum_met,     \* history: per identity, whether its stored voting power
                    \* exceeded 1/3 at some point since its tally was created
    committed,      \* the storage as last committed: what a query reads
    pending         \* the write call in progress, write by write (none: the
                    \* empty set)

vars ==
    <<storage, current_epoch, total_stake, call, written, quorum_met, committed,
      pending>>

(***************************************************************************)
(* The storage collaborator and the read primitives.                       *)
(***************************************************************************)
has_key(s, key) == key \in DOMAIN s

write_bytes(s, key, bytes) ==
    [k \in DOMAIN s \cup {key} |-> IF k = key THEN bytes ELSE s[k]]

delete_key(s, key) == [k \in DOMAIN s \ {key} |-> s[k]]

\* read::value: NotFound when the key is absent, else the decoded bytes.
read_value(s, key, ty) ==
    IF has_key(s, key) THEN Decode(ty, s[key]) ELSE NotFound

\* read::maybe_value: None when the key is absent.
maybe_value(s, key, ty) ==
    IF has_key(s, key)
    THEN LET r == Decode(ty, s[key]) IN IF r.ok THEN Ok(Some(r.val)) ELSE r
    ELSE Ok(None)

\* read::amount_or_default: Amount::default() = 0 when the key is absent.
amount_or_default(s, key) ==
    LET r == maybe_value(s, key, "Amount")
    IN  IF r.ok THEN Ok(IF r.val = None THEN 0 ELSE r.val[1]) ELSE r

(***************************************************************************)
(* Epoched voting power and the quorum policy.                             *)
(***************************************************************************)
InvalidState == [ok |-> FALSE, err |-> "InvalidState"]

\* EpochedVotingPowerExt::fractional_stake: the tallied stake over the total
\* stake of the reference epoch, as an exact fraction; it fails when the
\* total stake is zero.
fractional_stake(voting_power, total) ==
    IF total = 0 THEN InvalidState
    ELSE Ok([num |-> tallied_stake(voting_power), den |-> total])

\* Mutant: >= in the place of >.
exceeds_one_third_or_equal(fraction) == fraction.num * 3 >= fraction.den * 1

\* fraction > FractionalVotingPower::ONE_THIRD, by cross-multiplication.
exceeds_one_third(fraction) == fraction.num * 3 > fraction.den * 1

\* EpochedVotingPower::add: the amount of the epoch grows by amount; an
\* epoch not yet recorded is created with it.
add(voting_power, epoch, amount) ==
    [e \in DOMAIN voting_power \cup {epoch} |->
        IF e = epoch
        THEN (IF e \in DOMAIN voting_power THEN voting_power[e] ELSE 0) + amount
        ELSE voting_power[e]]

(***************************************************************************)
(* The tally store: votes/storage.rs.                                      *)
(***************************************************************************)
\* Mutant: the epoch is written whatever already_present says.
write_storage_epoch_always(s, keys, body, tally, already_present, epoch) ==
    LET s1 == write_bytes(s, keys.body, SerBody(body))
        s2 == write_bytes(s1, keys.seen, SerBool(tally.seen))
        s3 == write_bytes(s2, keys.seen_by, SerVotes(tally.seen_by))
        s4 == write_bytes(s3, keys.voting_power, SerVotingPower(tally.voting_power))
    IN  write_bytes(s4, keys.voting_started_epoch, SerU64(epoch))

\* Mutant: the voting power is written with the epoch, on creation only.
write_storage_power_on_creation(s, keys, body, tally, already_present, epoch) ==
    LET s1 == write_bytes(s, keys.body, SerBody(body))
        s2 == write_bytes(s1, keys.seen, SerBool(tally.seen))
        s3 == write_bytes(s2, keys.seen_by, SerVotes(tally.seen_by))
        s4 == write_bytes(s3, keys.voting_power, SerVotingPower(tally.voting_power))
    IN  IF ~already_present
        THEN write_bytes(s4, keys.voting_started_epoch, SerU64(epoch))
        ELSE s3

\* Mutant: the seen flag is written with the epoch, on creation only.
write_storage_seen_on_creation(s, keys, body, tally, already_present, epoch) ==
    LET s1 == write_bytes(s, keys.body, SerBody(body))
        s2 == write_bytes(s1, keys.seen, SerBool(tally.seen))
        s3 == write_bytes(IF already_present THEN s1 ELSE s2, keys.seen_by,
                          SerVotes(tally.seen_by))
        s4 == write_bytes(s3, keys.voting_power, SerVotingPower(tally.voting_power))
    IN  IF ~already_present
        THEN write_bytes(s4, keys.voting_started_epoch, SerU64(epoch))
        ELSE s4

\* Mutant: the condition on already_present is inverted.
write_storage_epoch_on_update(s, keys, body, tally, already_present, epoch) ==
    LET s1 == write_bytes(s, keys.body, SerBody(body))
        s2 == write_bytes(s1, keys.seen, SerBool(tally.seen))
        s3 == write_bytes(s2, keys.seen_by, SerVotes(tally.seen_by))
        s4 == write_bytes(s3, keys.voting_power, SerVotingPower(tally.voting_power))
    IN  IF already_present
        THEN write_bytes(s4, keys.voting_started_epoch, SerU64(epoch))
        ELSE s4

\* Mutant: the seen flag goes under a key that leaves the identity out.
write_storage_shared_seen(s, keys, body, tally, already_present, epoch) ==
    LET s1 == write_bytes(s, keys.body, SerBody(body))
        s2 == write_bytes(s1, Keys(1).seen, SerBool(tally.seen))
        s3 == write_bytes(s2, keys.seen_by, SerVotes(tally.seen_by))
        s4 == write_bytes(s3, keys.voting_power, SerVotingPower(tally.voting_power))
    IN  IF ~already_present
        THEN write_bytes(s4, keys.voting_started_epoch, SerU64(epoch))
        ELSE s4

\* write: the storage after the four unconditional writes and, when the
\* tally is not already present, the write of the current epoch.
write_storage(s, keys, body, tally, already_present, epoch) ==
    LET s1 == write_bytes(s, keys.body, SerBody(body))
        s2 == write_bytes(s1, keys.seen, SerBool(tally.seen))
        s3 == write_bytes(s2, keys.seen_by, SerVotes(tally.seen_by))
        s4 == write_bytes(s3, keys.voting_power, SerVotingPower(tally.voting_power))
    IN  IF ~already_present
        THEN write_bytes(s4, keys.voting_started_epoch, SerU64(epoch))
        ELSE s4

\* Mutant: the voting_started_epoch key is left behind.
delete_keys_but_epoch(s, keys) ==
    LET s1 == delete_key(s, keys.body)
        s2 == delete_key(s1, keys.seen)
        s3 == delete_key(s2, keys.seen_by)
    IN  delete_key(s3, keys.voting_power)

\* Mutant: the deletes take every key under the tallies' common prefix.
delete_keys_of_every_identity(s, keys) ==
    [k \in {x \in DOMAIN s : x \notin TallyKeys} |-> s[k]]

\* Mutant: the body key, which delete reads only above 1/3, is left behind.
delete_keys_but_body(s, keys) ==
    LET s1 == delete_key(s, keys.seen)
        s2 == delete_key(s1, keys.seen_by)
        s3 == delete_key(s2, keys.voting_power)
    IN  delete_key(s3, keys.voting_started_epoch)

\* The five deletes that end delete.
delete_keys(s, keys) ==
    LET s1 == delete_key(s, keys.body)
        s2 == delete_key(s1, keys.seen)
        s3 == delete_key(s2, keys.seen_by)
        s4 == delete_key(s3, keys.voting_power)
    IN  delete_key(s4, keys.voting_started_epoch)

\* Mutant: the body is returned whatever the fraction.
delete_outcome_body_always(s, keys, total) ==
    LET voting_power == read_value(s, keys.voting_power, "EpochedVotingPower")
        fraction == fractional_stake(voting_power.val, total)
        body == read_value(s, keys.body, "EthereumEvent")
    IN  IF ~voting_power.ok THEN [res |-> voting_power, storage |-> s]
        ELSE IF ~fraction.ok
        THEN [res |-> [ok |-> FALSE, err |-> "panic"], storage |-> s]
        ELSE IF ~body.ok THEN [res |-> body, storage |-> s]
        ELSE [res |-> Ok(Some(body.val)), storage |-> delete_keys(s, keys)]

\* Mutant: the voting power is the one kept from the last write, when there
\* is one, not the one in the storage.
delete_outcome_cached(s, keys, total) ==
    LET last == written[keys.body[1]]
        voting_power ==
            IF last # {} THEN Ok((CHOOSE w \in last : TRUE).tally.voting_power)
            ELSE read_value(s, keys.voting_power, "EpochedVotingPower")
        fraction == fractional_stake(voting_power.val, total)
        body == read_value(s, keys.body, "EthereumEvent")
    IN  IF ~voting_power.ok THEN [res |-> voting_power, storage |-> s]
        ELSE IF ~fraction.ok
        THEN [res |-> [ok |-> FALSE, err |-> "panic"], storage |-> s]
        ELSE IF exceeds_one_third(fraction.val)
        THEN IF ~body.ok THEN [res |-> body, storage |-> s]
             ELSE [res |-> Ok(Some(body.val)), storage |-> delete_keys(s, keys)]
        ELSE [res |-> Ok(None), storage |-> delete_keys(s, keys)]

\* Mutant: the fraction is taken on the amount of the latest recorded epoch.
delete_outcome_latest_epoch(s, keys, total) ==
    LET voting_power == read_value(s, keys.voting_power, "EpochedVotingPower")
        recorded == DOMAIN voting_power.val
        latest == {e \in recorded : \A o \in recorded : o <= e}
        fraction == fractional_stake([e \in latest |-> voting_power.val[e]], total)
        body == read_value(s, keys.body, "EthereumEvent")
    IN  IF ~voting_power.ok THEN [res |-> voting_power, storage |-> s]
        ELSE IF ~fraction.ok
        THEN [res |-> [ok |-> FALSE, err |-> "panic"], storage |-> s]
        ELSE IF exceeds_one_third(fraction.val)
        THEN IF ~body.ok THEN [res |-> body, storage |-> s]
             ELSE [res |-> Ok(Some(body.val)), storage |-> delete_keys(s, keys)]
        ELSE [res |-> Ok(None), storage |-> delete_keys(s, keys)]

\* Mutant: the five keys are deleted before the payload is read, so a delete
\* that fails on the payload has already emptied the tally.
delete_outcome_deleting_first(s, keys, total) ==
    LET voting_power == read_value(s, keys.voting_power, "EpochedVotingPower")
        fraction == fractional_stake(voting_power.val, total)
        body == read_value(s, keys.body, "EthereumEvent")
    IN  IF ~voting_power.ok THEN [res |-> voting_power, storage |-> s]
        ELSE IF ~fraction.ok
        THEN [res |-> [ok |-> FALSE, err |-> "panic"], storage |-> s]
        ELSE IF exceeds_one_third(fraction.val)
        THEN IF ~body.ok THEN [res |-> body, storage |-> delete_keys(s, keys)]
             ELSE [res |-> Ok(Some(body.val)), storage |-> delete_keys(s, keys)]
        ELSE [res |-> Ok(None), storage |-> delete_keys(s, keys)]

\* delete: the result and the storage it leaves. An error of a read returns
\* early, before any key is deleted. fractional_stake hands delete a plain
\* fraction, not a Result: its failure cannot be returned with `?` and ends
\* the call by a panic, with the storage as it was.
delete_outcome(s, keys, total) ==
    LET voting_power == read_value(s, keys.voting_power, "EpochedVotingPower")
        fraction == fractional_stake(voting_power.val, total)
        body == read_value(s, keys.body, "EthereumEvent")
    IN  IF ~voting_power.ok THEN [res |-> voting_power, storage |-> s]
        ELSE IF ~fraction.ok
        THEN [res |-> [ok |-> FALSE, err |-> "panic"], storage |-> s]
        ELSE IF exceeds_one_third(fraction.val)
        THEN IF ~body.ok THEN [res |-> body, storage |-> s]
             ELSE [res |-> Ok(Some(body.val)), storage |-> delete_keys(s, keys)]
        ELSE [res |-> Ok(None), storage |-> delete_keys(s, keys)]

\* Mutant: the votes are not read back.
read_tally_without_votes(s, keys) ==
    LET seen == read_value(s, keys.seen, "bool")
        voting_power == read_value(s, keys.voting_power, "EpochedVotingPower")
    IN  IF ~seen.ok THEN seen
        ELSE IF ~voting_power.ok THEN voting_power
        ELSE Ok(Tally(voting_power.val, EmptyMap, seen.val))

\* Mutant: read wants the body too.
read_tally_needing_body(s, keys) ==
    LET body == read_value(s, keys.body, "EthereumEvent")
        seen == read_value(s, keys.seen, "bool")
        seen_by == read_value(s, keys.seen_by, "Votes")
        voting_power == read_value(s, keys.voting_power, "EpochedVotingPower")
    IN  IF ~body.ok THEN body
        ELSE IF ~seen.ok THEN seen
        ELSE IF ~seen_by.ok THEN seen_by
        ELSE IF ~voting_power.ok THEN voting_power
        ELSE Ok(Tally(voting_power.val, seen_by.val, seen.val))

\* read: the Tally rebuilt from the seen, seen_by and voting_power keys, or
\* the error of the first read that fails.
read_tally(s, keys) ==
    LET seen == read_value(s, keys.seen, "bool")
        seen_by == read_value(s, keys.seen_by, "Votes")
        voting_power == read_value(s, keys.voting_power, "EpochedVotingPower")
    IN  IF ~seen.ok THEN seen
        ELSE IF ~seen_by.ok THEN seen_by
        ELSE IF ~voting_power.ok THEN voting_power
        ELSE Ok(Tally(voting_power.val, seen_by.val, seen.val))

read_body_value(s, keys) == read_value(s, keys.body, "EthereumEvent")

\* Mutant: read::value in the place of read::maybe_value.
maybe_read_seen_strict(s, keys) ==
    LET seen == read_value(s, keys.seen, "bool")
    IN  IF seen.ok THEN Ok(Some(seen.val)) ELSE seen

maybe_read_seen_value(s, keys) == maybe_value(s, keys.seen, "bool")

\* The store's key order: by prefix, then by the key's last segment.
FieldRank(f) ==
    IF f \in Fields THEN CHOOSE i \in 1 .. Len(FieldOrder) : FieldOrder[i] = f
    ELSE 0

KeyLess(k1, k2) ==
    \/ k1[1] < k2[1]
    \/ k1[1] = k2[1] /\ FieldRank(k1[2]) < FieldRank(k2[2])

RECURSIVE InKeyOrder(_, _)
InKeyOrder(s, K) ==
    IF K = {} THEN <<>>
    ELSE LET k == CHOOSE x \in K : \A y \in K \ {x} : KeyLess(x, y)
         IN  <<(<<k, s[k]>>)>> \o InKeyOrder(s, K \ {k})

\* Mutant: the scan is given the empty prefix.
iter_prefix_pairs_of_all(s, prefix) ==
    Ok(InKeyOrder(s, DOMAIN s))

\* iter_prefix: the stored pairs whose key lies under prefix, in key order.
iter_prefix_pairs(s, prefix) ==
    Ok(InKeyOrder(s, {k \in DOMAIN s : k[1] = prefix}))

(***************************************************************************)
(* update.rs.                                                              *)
(***************************************************************************)
\* The closures handed to update::value and update::amount. The values the
\* model lets a closure reach stay far from the width of their type.
Apply(f, v, epoch) ==
    CASE f = "double" -> v * 2
      [] f = "identity" -> v
      [] f = "add" -> add(v, epoch, 1)
      [] f = "credit" -> v + 1

\* Mutant: the value is serialised before the closure runs.
value_outcome_stale(s, key, ty, f, epoch) ==
    LET value == read_value(s, key, ty)
        new == Apply(f, value.val, epoch)
    IN  IF ~value.ok THEN [res |-> value, storage |-> s]
        ELSE [res |-> Ok(new),
              storage |-> write_bytes(s, key, Encode(ty, value.val))]

\* Mutant: the closure runs on T::default(), not on the value read.
value_outcome_from_default(s, key, ty, f, epoch) ==
    LET value == read_value(s, key, ty)
        new == Apply(f, Default(ty), epoch)
    IN  IF ~value.ok THEN [res |-> value, storage |-> s]
        ELSE [res |-> Ok(new), storage |-> write_bytes(s, key, Encode(ty, new))]

\* update::value: read::value, the closure, write_bytes, the new value.
value_outcome(s, key, ty, f, epoch) ==
    LET value == read_value(s, key, ty)
        new == Apply(f, value.val, epoch)
    IN  IF ~value.ok THEN [res |-> value, storage |-> s]
        ELSE [res |-> Ok(new), storage |-> write_bytes(s, key, Encode(ty, new))]

\* Mutant: read::value in the place of read::amount_or_default.
amount_outcome_strict(s, key, f, epoch) ==
    LET amount == read_value(s, key, "Amount")
        new == Apply(f, amount.val, epoch)
    IN  IF ~amount.ok THEN [res |-> amount, storage |-> s]
        ELSE [res |-> Ok(new), storage |-> write_bytes(s, key, SerAmount(new))]

\* update::amount: read::amount_or_default, the closure, write_bytes.
amount_outcome(s, key, f, epoch) ==
    LET amount == amount_or_default(s, key)
        new == Apply(f, amount.val, epoch)
    IN  IF ~amount.ok THEN [res |-> amount, storage |-> s]
        ELSE [res |-> Ok(new), storage |-> write_bytes(s, key, SerAmount(new))]

(***************************************************************************)
(* History.                                                                *)
(***************************************************************************)
\* The last call that may change the state: its operation, the identity (a
\* key's prefix) and key it addressed, the already_present flag of a write,
\* the closure of an update, and what it returned.
Call(op, id, key, already_present, f, res) ==
    [op |-> op, id |-> id, key |-> key, already_present |-> already_present,
     f |-> f, res |-> res]

\* Whether the voting power stored for id exceeds 1/3 of total.
quorum_now(s, id, total) ==
    LET voting_power == read_value(s, Keys(id).voting_power, "EpochedVotingPower")
    IN  /\ voting_power.ok
        /\ total > 0
        /\ exceeds_one_third(fractional_stake(voting_power.val, total).val)

\* quorum_met after a step from storage s to storage t, with total the total
\* stake it leaves: a tally starts over when its voting power is created,
\* and a deleted tally keeps its history until then.
quorum_track(s, t, total) ==
    [id \in Ids |->
        IF ~has_key(t, Keys(id).voting_power) THEN quorum_met[id]
        ELSE IF ~has_key(s, Keys(id).voting_power) THEN quorum_now(t, id, total)
        ELSE quorum_met[id] \/ quorum_now(t, id, total)]

\* The history of a write: its arguments, and whether the seen flag of this
\* tally was true before it.
Written(old, body, tally) ==
    {[body |-> body, tally |-> tally, rewritten |-> FALSE,
      seen_before |-> \E w \in old : w.seen_before \/ w.tally.seen]}

(***************************************************************************)
(* The state machine.                                                      *)
(***************************************************************************)
Init ==
    /\ storage = EmptyMap
    /\ current_epoch = 0
    /\ total_stake \in Amounts
    /\ call = Call("init", 0, "", FALSE, "", Ok(Unit))
    /\ written = [id \in Ids |-> {}]
    /\ quorum_met = [id \in Ids |-> FALSE]
    /\ committed = EmptyMap
    /\ pending = {}

\* The chain enters the next epoch, with that epoch's total stake.
new_epoch(stake) ==
    /\ current_epoch < MaxEpoch
    /\ current_epoch' = current_epoch + 1
    /\ total_stake' = stake
    /\ call' = Call("new_epoch", 0, "", FALSE, "", Ok(Unit))
    /\ quorum_met' = quorum_track(storage, storage, stake)
    /\ UNCHANGED <<storage, written, committed, pending>>

write(id, body, tally, already_present) ==
    /\ storage' = write_storage(storage, Keys(id), body, tally, already_present,
                                current_epoch)
    /\ call' = Call("write", id, "", already_present, "", Ok(Unit))
    /\ written' = [written EXCEPT ![id] = Written(written[id], body, tally)]
    /\ quorum_met' = quorum_track(storage, storage', total_stake)
    /\ UNCHANGED <<current_epoch, total_stake, committed, pending>>

delete(id) ==
    LET out == delete_outcome(storage, Keys(id), total_stake)
    IN  /\ storage' = out.storage
        /\ call' = Call("delete", id, "", FALSE, "", out.res)
        /\ written' = IF out.res.ok THEN [written EXCEPT ![id] = {}] ELSE written
        /\ quorum_met' = quorum_track(storage, storage', total_stake)
        /\ UNCHANGED <<current_epoch, total_stake, committed, pending>>

\* The four reads borrow the storage immutably (&WlStorage): they change
\* nothing, and what they return is read_tally, read_body_value,
\* maybe_read_seen_value and iter_prefix_pairs of the state they are called in.
read(id) ==
    /\ read_tally(storage, Keys(id)) \in {NotFound, DeserializationError}
                                         \cup {Ok(t) : t \in Tallies}
    /\ UNCHANGED vars

read_body(id) ==
    /\ read_body_value(storage, Keys(id)) \in {NotFound, DeserializationError}
                                              \cup {Ok(b) : b \in Bodies}
    /\ UNCHANGED vars

maybe_read_seen(id) ==
    /\ maybe_read_seen_value(storage, Keys(id)) \in
          {DeserializationError, Ok(None), Ok(Some(TRUE)), Ok(Some(FALSE))}
    /\ UNCHANGED vars

iter_prefix(prefix) ==
    /\ Len(iter_prefix_pairs(storage, prefix).val) <= Len(FieldOrder)
    /\ UNCHANGED vars

\* A key of a tally rewritten by another call than write: the history of
\* the last write no longer describes what is stored.
rewritten_by(key) ==
    [id \in Ids |->
        IF key[1] = id
        THEN {[w EXCEPT !.rewritten = TRUE] : w \in written[id]}
        ELSE written[id]]

\* The test's set-up: a value serialised and stored under the key.
store_i32(key, v) ==
    /\ storage' = write_bytes(storage, key, SerI32(v))
    /\ call' = Call("write_bytes", key[1], key[2], FALSE, "", Ok(Unit))
    /\ written' = rewritten_by(key)
    /\ quorum_met' = quorum_track(storage, storage', total_stake)
    /\ UNCHANGED <<current_epoch, total_stake, committed, pending>>

\* update::value::<ty>(key, f).
value(key, ty, f) ==
    LET out == value_outcome(storage, key, ty, f, current_epoch)
    IN  /\ storage' = out.storage
        /\ call' = Call("value", key[1], key[2], FALSE, f, out.res)
        /\ written' = IF out.res.ok THEN rewritten_by(key) ELSE written
        /\ quorum_met' = quorum_track(storage, storage', total_stake)
        /\ UNCHANGED <<current_epoch, total_stake, committed, pending>>

\* update::amount(key, f).
amount(key, f) ==
    LET out == amount_outcome(storage, key, f, current_epoch)
    IN  /\ storage' = out.storage
        /\ call' = Call("amount", key[1], key[2], FALSE, f, out.res)
        /\ written' = IF out.res.ok THEN rewritten_by(key) ELSE written
        /\ quorum_met' = quorum_track(storage, storage', total_stake)
        /\ UNCHANGED <<current_epoch, total_stake, committed, pending>>

\* The values the updates may reach: the model stops a closure whose result
\* leaves them.
I32Values == {21, 42}

ValueInputs(ids) ==
    {<<ArbitraryKey, "i32", f>> : f \in {"double", "identity"}}
    \cup {<<Keys(id).voting_power, "EpochedVotingPower", "add">> : id \in ids}

ValueInBounds(in) ==
    LET out == value_outcome(storage, in[1], in[2], in[3], current_epoch)
    IN  out.res.ok =>
            IF in[2] = "i32" THEN out.res.val \in I32Values
            ELSE out.res.val \in VotingPowers

AmountInBounds(key) ==
    LET out == amount_outcome(storage, key, "credit", current_epoch)
    IN  out.res.ok => out.res.val \in Amounts

\* A voting power records votes of the epochs so far only.
Cast(tally) == DOMAIN tally.voting_power \subseteq 0 .. current_epoch

\* The life of one tally, over every input.
Next ==
    \/ \E stake \in Amounts : new_epoch(stake)
    \/ \E body \in Bodies, tally \in Tallies, ap \in BOOLEAN :
          Cast(tally) /\ write(1, body, tally, ap)
    \/ delete(1)
    \/ read(1)
    \/ read_body(1)
    \/ maybe_read_seen(1)
    \/ iter_prefix(1)

Spec == Init /\ [][Next]_vars

\* The whole interface over two identities and the key of the updates, with
\* fewer inputs to write.
StoreTallies == {t \in Tallies : t.seen_by # EmptyMap /\ ~t.seen}

StoreNext ==
    \/ \E id \in Ids, tally \in StoreTallies :
          Cast(tally) /\ write(id, id - 1, tally, FALSE)
    \/ \E id \in Ids : delete(id)
    \/ \E id \in Ids : read(id)
    \/ \E id \in Ids : read_body(id)
    \/ \E id \in Ids : maybe_read_seen(id)
    \/ \E prefix \in {0} \cup Ids : iter_prefix(prefix)
    \/ store_i32(ArbitraryKey, 21)
    \/ \E in \in ValueInputs(Ids) : ValueInBounds(in) /\ value(in[1], in[2], in[3])
    \/ AmountInBounds(ArbitraryKey) /\ amount(ArbitraryKey, "credit")

\* The total stake stays that of epoch 0: 1 of it is exactly 1/3.
StoreInit == Init /\ total_stake = MaxStake

StoreSpec == StoreInit /\ [][StoreNext]_vars

\* The updates over one tally and the key of the test, with the identity
\* closure on both types.
UpdateInputs ==
    ValueInputs({1})
    \cup {<<Keys(1).voting_power, "EpochedVotingPower", "identity">>}

UpdateNext ==
    \/ \E tally \in StoreTallies : Cast(tally) /\ write(1, 0, tally, FALSE)
    \/ delete(1)
    \/ read(1)
    \/ store_i32(ArbitraryKey, 21)
    \/ \E in \in UpdateInputs : ValueInBounds(in) /\ value(in[1], in[2], in[3])
    \/ AmountInBounds(ArbitraryKey) /\ amount(ArbitraryKey, "credit")

UpdateSpec == Init /\ [][UpdateNext]_vars

(***************************************************************************)
(* write, one write_bytes at a time, inside a state transition: the         *)
(* storage is what the transition works on, committed what queries read.    *)
(* The actions above run a call as a whole and leave the commit out.        *)
(***************************************************************************)
StorageIoError == [ok |-> FALSE, err |-> "StorageIoError"]

\* The write_bytes calls of write, in order: the key and the bytes of each.
write_calls(keys, body, tally, already_present, epoch) ==
    <<(<<keys.body, SerBody(body)>>),
      (<<keys.seen, SerBool(tally.seen)>>),
      (<<keys.seen_by, SerVotes(tally.seen_by)>>),
      (<<keys.voting_power, SerVotingPower(tally.voting_power)>>)>>
    \o (IF ~already_present
        THEN <<(<<keys.voting_started_epoch, SerU64(epoch)>>)>>
        ELSE <<>>)

\* A call of write that has begun: its arguments, the number of its
\* write_bytes done, and its result once it has returned.
Pending(id, body, tally, already_present) ==
    [id |-> id, body |-> body, tally |-> tally,
     already_present |-> already_present, done |-> 0, res |-> None]

\* Mutant: the result of write_bytes is dropped, and write goes on.
after_write_bytes_ignored(p, last, ok) ==
    IF p.done + 1 = last
    THEN [p EXCEPT !.done = @ + 1, !.res = Some(Ok(Unit))]
    ELSE [p EXCEPT !.done = @ + 1]

\* The call after one more write_bytes: `?` returns its error at once, and
\* Ok(()) is returned after the last of them.
after_write_bytes(p, last, ok) ==
    IF ~ok THEN [p EXCEPT !.res = Some(StorageIoError)]
    ELSE IF p.done + 1 = last
    THEN [p EXCEPT !.done = @ + 1, !.res = Some(Ok(Unit))]
    ELSE [p EXCEPT !.done = @ + 1]

\* The state transition calls write.
begin_write(id, body, tally, already_present) ==
    /\ pending = {}
    /\ pending' = {Pending(id, body, tally, already_present)}
    /\ UNCHANGED <<storage, current_epoch, total_stake, call, written,
                   quorum_met, committed>>

\* The next write_bytes of the call: it writes, or fails and writes nothing.
write_bytes_step(ok) ==
    /\ pending # {}
    /\ LET p == CHOOSE x \in pending : TRUE
           calls == write_calls(Keys(p.id), p.body, p.tally, p.already_present,
                                current_epoch)
           next == calls[p.done + 1]
           q == after_write_bytes(p, Len(calls), ok)
       IN  /\ p.res = None
           /\ storage' = IF ok THEN write_bytes(storage, next[1], next[2])
                         ELSE storage
           /\ pending' = {q}
           /\ call' = IF q.res = None THEN call
                      ELSE Call("write", p.id, "", p.already_present, "", q.res[1])
           /\ written' = IF q.res = Some(Ok(Unit))
                         THEN [written EXCEPT
                                 ![p.id] = Written(written[p.id], p.body, p.tally)]
                         ELSE written
           /\ quorum_met' = quorum_track(storage, storage', total_stake)
    /\ UNCHANGED <<current_epoch, total_stake, committed>>

\* write returned Ok: the state transition completes and is committed.
commit ==
    /\ \E p \in pending : p.res = Some(Ok(Unit))
    /\ committed' = storage
    /\ pending' = {}
    /\ UNCHANGED <<storage, current_epoch, total_stake, call, written, quorum_met>>

\* write returned an error: the whole state transition fails, and what it
\* wrote is dropped.
abort ==
    /\ \E p \in pending : p.res = Some(StorageIoError)
    /\ storage' = committed
    /\ pending' = {}
    /\ quorum_met' = quorum_track(storage, storage', total_stake)
    /\ UNCHANGED <<current_epoch, total_stake, call, written, committed>>

\* A query reads the committed storage, at any moment.
query(id) ==
    /\ read_tally(committed, Keys(id)) \in {NotFound, DeserializationError}
                                           \cup {Ok(t) : t \in Tallies}
    /\ UNCHANGED vars

CommitNext ==
    \/ \E body \in Bodies, tally \in StoreTallies, ap \in BOOLEAN :
          Cast(tally) /\ begin_write(1, body, tally, ap)
    \/ \E ok \in BOOLEAN : write_bytes_step(ok)
    \/ commit
    \/ abort
    \/ query(1)
    \/ pending = {} /\ new_epoch(MaxStake)

CommitSpec == StoreInit /\ [][CommitNext]_vars

(***************************************************************************)
(* The keys of one tally written and deleted one by one, the way            *)
(* test_read_tally sets its storage up.                                     *)
(***************************************************************************)
\* The writes of the set-up: a key of the tally with the bytes write gives
\* it, for every body and tally.
SetUpWrites(id) ==
    UNION {LET calls == write_calls(Keys(id), body, tally, FALSE, current_epoch)
           IN  {calls[n] : n \in 1 .. Len(calls)} :
           body \in Bodies, tally \in {t \in Tallies : Cast(t)}}

\* write_bytes of one key of a tally.
set_up(kv) ==
    /\ storage' = write_bytes(storage, kv[1], kv[2])
    /\ call' = Call("write_bytes", kv[1][1], kv[1][2], FALSE, "", Ok(Unit))
    /\ written' = rewritten_by(kv[1])
    /\ quorum_met' = quorum_track(storage, storage', total_stake)
    /\ UNCHANGED <<current_epoch, total_stake, committed, pending>>

\* wl_storage.delete of one key.
remove(key) ==
    /\ storage' = delete_key(storage, key)
    /\ call' = Call("delete_key", key[1], key[2], FALSE, "", Ok(Unit))
    /\ written' = rewritten_by(key)
    /\ quorum_met' = quorum_track(storage, storage', total_stake)
    /\ UNCHANGED <<current_epoch, total_stake, committed, pending>>

KeyNext ==
    \/ \E kv \in SetUpWrites(1) : set_up(kv)
    \/ \E f \in Fields : remove(Keys(1)[f])
    \/ \E f \in Fields : store_i32(Keys(1)[f], 21)
    \/ read(1)
    \/ read_body(1)
    \/ maybe_read_seen(1)

KeySpec == StoreInit /\ [][KeyNext]_vars

\* The keys of one tally written and removed one at a time, as KeySpec does,
\* and the tally deleted: delete meets every subset of the five keys.
ExpireNext ==
    \/ \E kv \in SetUpWrites(1) : set_up(kv)
    \/ \E f \in Fields : remove(Keys(1)[f])
    \/ \E f \in Fields : store_i32(Keys(1)[f], 21)
    \/ delete(1)

ExpireSpec == StoreInit /\ [][ExpireNext]_vars

\* Whether a key of the identity is stored: the least a caller can mean by
\* a tally that is already present.
tally_stored(s, id) == \E f \in Fields : has_key(s, Keys(id)[f])

\* write and delete over two identities and the epochs, by a caller that
\* passes already_present = true only for an identity whose tally is stored.
CallerNext ==
    \/ \E stake \in Amounts : new_epoch(stake)
    \/ \E id \in Ids, tally \in StoreTallies, ap \in BOOLEAN :
          /\ Cast(tally)
          /\ ap => tally_stored(storage, id)
          /\ write(id, id - 1, tally, ap)
    \/ \E id \in Ids : delete(id)

CallerSpec == Init /\ [][CallerNext]_vars

(***************************************************************************)
(* Properties.                                                             *)
(***************************************************************************)
\* The history of the last write of a tally.
LastOf(w) == CHOOSE x \in w : TRUE

\* The total stake of the voting power stored for id; -1 when none reads.
StoredStake(s, id) ==
    LET voting_power == read_value(s, Keys(id).voting_power, "EpochedVotingPower")
    IN  IF voting_power.ok THEN tallied_stake(voting_power.val) ELSE -1

\* The step is a call of op for id.
Calls(op, id) == call'.op = op /\ call'.id = id

\* C1: delete of a stored tally, with a total stake that is not zero,
\* returns Some(body), body the payload of the last write, if and only if
\* the voting power of that write summed over its epochs is strictly more
\* than 1/3 of the total stake of the current epoch; at exactly 1/3 or
\* below it returns None.
C1_DeleteReturnsBodyIffAboveOneThird ==
    [][\A id \in Ids :
        (/\ Calls("delete", id)
         /\ written[id] # {}
         /\ ~LastOf(written[id]).rewritten
         /\ total_stake > 0)
        => call'.res =
             IF 3 * tallied_stake(LastOf(written[id]).tally.voting_power)
                  > total_stake
             THEN Ok(Some(LastOf(written[id]).body))
             ELSE Ok(None)]_vars

\* A delete in epoch 1 handed back the payload with nonce 1.
C1_Witness ==
    /\ call.op = "delete"
    /\ call.res = Ok(Some(1))
    /\ current_epoch = 1

\* C2: after a delete that returned Some(body) or None, none of the five
\* keys of the identity is in the storage.
C2_DeleteRemovesTheFiveKeys ==
    (call.op = "delete" /\ call.res.ok)
    => \A f \in Fields : ~has_key(storage, Keys(call.id)[f])

\* A delete returned None and left no key of the identity.
C2_Witness ==
    /\ call.op = "delete"
    /\ call.res = Ok(None)
    /\ \A f \in Fields : ~has_key(storage, Keys(call.id)[f])

\* C3, as claimed: a tally whose fractional stake exceeded 1/3 at some point
\* of its life has its payload returned by delete.
C3_PayloadReturnedIfQuorumEverMet ==
    [][\A id \in Ids :
        (/\ Calls("delete", id)
         /\ written[id] # {}
         /\ quorum_met[id]
         /\ total_stake > 0)
        => call'.res = Ok(Some(LastOf(written[id]).body))]_vars

\* C3, amended: of a tally whose fractional stake exceeded 1/3 at some point
\* of its life, delete returns the payload exactly when the stored voting
\* power still exceeds 1/3 of the current total stake as delete is called,
\* and None when the epoch's total stake or a rewrite has taken it to 1/3
\* or below.
C3_PayloadReturnedIfQuorumAtDelete ==
    [][\A id \in Ids :
        (/\ Calls("delete", id)
         /\ written[id] # {}
         /\ quorum_met[id]
         /\ total_stake > 0)
        => call'.res =
             IF quorum_now(storage, id, total_stake)
             THEN Ok(Some(LastOf(written[id]).body))
             ELSE Ok(None)]_vars

\* A tally that had exceeded 1/3 was deleted and None came back.
C3_Witness ==
    /\ call.op = "delete"
    /\ call.res = Ok(None)
    /\ quorum_met[call.id]

\* C4: a write with already_present = false leaves the current epoch under
\* voting_started_epoch; a write with already_present = true leaves that key
\* as it was, present or not, whatever the current epoch.
C4_VotingStartedEpochWrittenOnCreationOnly ==
    [][\A id \in Ids :
        Calls("write", id)
        => LET key == Keys(id).voting_started_epoch
           IN  IF call'.already_present
               THEN /\ has_key(storage', key) = has_key(storage, key)
                    /\ has_key(storage, key) => storage'[key] = storage[key]
               ELSE read_value(storage', key, "u64") = Ok(current_epoch)]_vars

\* A write with already_present = true in epoch 1 kept the epoch 0 of the
\* tally's creation.
C4_Witness ==
    /\ call.op = "write"
    /\ call.already_present
    /\ current_epoch = 1
    /\ read_value(storage, Keys(call.id).voting_started_epoch, "u64") = Ok(0)

\* C5: while the tally of the last write is stored, read returns the seen,
\* seen_by and voting_power of that write and read_body its body.
C5_ReadReturnsLastWrite ==
    \A id \in Ids :
        (written[id] # {} /\ ~LastOf(written[id]).rewritten)
        => /\ read_tally(storage, Keys(id)) = Ok(LastOf(written[id]).tally)
           /\ read_body_value(storage, Keys(id)) = Ok(LastOf(written[id]).body)

\* A tally created in epoch 0 and written over in epoch 1 reads back seen,
\* with the votes of both epochs.
C5_Witness ==
    /\ call.op = "write"
    /\ call.already_present
    /\ read_tally(storage, Keys(call.id))
         = Ok(Tally([e \in {0, 1} |-> 1], [a \in {1} |-> 10], TRUE))
    /\ read_body_value(storage, Keys(call.id)) = Ok(1)
    /\ read_value(storage, Keys(call.id).voting_started_epoch, "u64") = Ok(0)

\* C6, as claimed: no write onto a stored tally lowers the total stake of
\* the stored voting power.
C6_StoredStakeNeverDecreases ==
    [][\A id \in Ids :
        (Calls("write", id) /\ written[id] # {})
        => StoredStake(storage', id) >= StoredStake(storage, id)]_vars

\* C6, amended: write stores the voting power it is given: a write onto a
\* stored tally leaves a total stake no lower than the stored one exactly
\* when the tally it is given has one no lower.
C6_StoredStakeFollowsTheWrite ==
    [][\A id \in Ids :
        (Calls("write", id) /\ written[id] # {})
        => LET before == StoredStake(storage, id)
               after == StoredStake(storage', id)
               given == tallied_stake(LastOf(written'[id]).tally.voting_power)
           IN  (after >= before) = (given >= before)]_vars

\* In epoch 0, whose total stake never changed, a written tally that had
\* exceeded 1/3 no longer does: a write lowered its stake.
C6_Witness ==
    /\ call.op = "write"
    /\ current_epoch = 0
    /\ quorum_met[call.id]
    /\ ~quorum_now(storage, call.id, total_stake)

\* C7, as claimed: a tally whose stored seen flag was true has it true.
C7_SeenNeverBackToFalse ==
    \A id \in Ids :
        \A w \in written[id] :
            w.seen_before => maybe_read_seen_value(storage, Keys(id)) = Ok(Some(TRUE))

\* C7, amended: a stored seen flag that is true stays true until a write
\* that is given seen = false, which sets it back to false, or the delete of
\* the tally.
C7_SeenFollowsTheWrite ==
    [][\A id \in Ids :
        maybe_read_seen_value(storage, Keys(id)) = Ok(Some(TRUE))
        => maybe_read_seen_value(storage', Keys(id))
             = IF Calls("write", id)
               THEN Ok(Some(LastOf(written'[id]).tally.seen))
               ELSE IF Calls("delete", id) /\ call'.res.ok THEN Ok(None)
               ELSE Ok(Some(TRUE))]_vars

\* A tally that was seen is stored as not seen.
C7_Witness ==
    \E id \in Ids :
        \E w \in written[id] :
            /\ w.seen_before
            /\ maybe_read_seen_value(storage, Keys(id)) = Ok(Some(FALSE))

\* C8: maybe_read_seen returns None for an identity never written or deleted
\* since its last write, and Some of the seen flag of the last write
\* otherwise.
C8_MaybeReadSeen ==
    \A id \in Ids :
        maybe_read_seen_value(storage, Keys(id))
          = IF written[id] = {} THEN Ok(None)
            ELSE Ok(Some(LastOf(written[id]).tally.seen))

\* A tally was written and deleted, and maybe_read_seen returns None.
C8_Witness ==
    /\ call.op = "delete"
    /\ call.res.ok
    /\ written[call.id] = {}
    /\ maybe_read_seen_value(storage, Keys(call.id)) = Ok(None)

\* C9: a body key that is present is made absent by delete of its identity
\* only, whatever else is called.
C9_OnlyDeleteRemovesTheBody ==
    [][\A id \in Ids :
        (has_key(storage, Keys(id).body) /\ ~has_key(storage', Keys(id).body))
        => Calls("delete", id)]_vars

\* After writes and updates, a delete removed the body of identity 1 and
\* left the body of identity 2 and the updated key.
C9_Witness ==
    /\ call.op = "delete"
    /\ call.id = 1
    /\ ~has_key(storage, Keys(1).body)
    /\ has_key(storage, Keys(2).body)
    /\ has_key(storage, ArbitraryKey)

\* What update::value and update::amount read under the key of the call.
UpdateRead(s, c) ==
    LET key == <<c.id, c.key>>
    IN  IF c.op = "amount" THEN read_value(s, key, "Amount")
        ELSE IF c.id = 0 THEN read_value(s, key, "i32")
        ELSE read_value(s, key, "EpochedVotingPower")

\* C10: an update of a key that holds v returns f(v), leaves f(v) to read
\* under the key, and changes no other key.
C10_UpdateStoresAndReturns ==
    [][(call'.op \in {"value", "amount"} /\ UpdateRead(storage, call').ok)
       => /\ call'.res = Ok(Apply(call'.f, UpdateRead(storage, call').val,
                                  current_epoch))
          /\ UpdateRead(storage', call') = call'.res
          /\ \A k \in AllKeys \ {<<call'.id, call'.key>>} :
                /\ has_key(storage', k) = has_key(storage, k)
                /\ has_key(storage, k) => storage'[k] = storage[k]]_vars

\* 21 was doubled: 42 came back and is what the key holds.
C10_Witness ==
    /\ call.op = "value"
    /\ call.f = "double"
    /\ call.res = Ok(42)
    /\ read_value(storage, ArbitraryKey, "i32") = Ok(42)

\* C11: update::value with the identity closure, on a key that holds v,
\* returns v and leaves the storage as it was, byte for byte: v is what the
\* key reads after it, however many times it is applied.
C11_IdentityUpdateIsNoOp ==
    [][(/\ call'.op = "value"
        /\ call'.f = "identity"
        /\ UpdateRead(storage, call').ok)
       => /\ call'.res = UpdateRead(storage, call')
          /\ storage' = storage
          /\ UpdateRead(storage', call') = UpdateRead(storage, call')]_vars

\* The identity update of a stored voting power returned it, and it is what
\* read gives back.
C11_Witness ==
    /\ call.op = "value"
    /\ call.f = "identity"
    /\ call.id = 1
    /\ call.res = Ok([e \in {0} |-> 2])
    /\ read_tally(storage, Keys(1)).ok
    /\ read_tally(storage, Keys(1)).val.voting_power = [e \in {0} |-> 2]

\* The type an update is called with.
UpdateType(c) ==
    IF c.op = "amount" THEN "Amount"
    ELSE IF c.id = 0 THEN "i32"
    ELSE "EpochedVotingPower"

\* The update of the step finds no value under its key.
UpdatesAbsentKey ==
    /\ call'.op \in {"value", "amount"}
    /\ ~has_key(storage, <<call'.id, call'.key>>)

\* C12, as claimed: an update of an absent key, by update::amount or by
\* update::value, returns f(default), and f(default) is what the key holds.
C12_UpdateOfAbsentKeyUsesDefault ==
    [][UpdatesAbsentKey
       => /\ call'.res = Ok(Apply(call'.f, Default(UpdateType(call')),
                                  current_epoch))
          /\ UpdateRead(storage', call') = call'.res]_vars

\* C12, amended: update::amount of an absent key returns f(0), and f(0) is
\* what the key holds; update::value of an absent key fails with NotFound
\* and writes nothing.
C12_OnlyAmountUsesDefault ==
    [][UpdatesAbsentKey
       => IF call'.op = "amount"
          THEN /\ call'.res = Ok(Apply(call'.f, Default("Amount"), current_epoch))
               /\ UpdateRead(storage', call') = call'.res
          ELSE /\ call'.res = NotFound
               /\ storage' = storage]_vars

\* update::amount credited a key that held nothing: the key holds 0 + 1.
C12_Witness ==
    /\ call.op = "amount"
    /\ call.res = Ok(1)
    /\ read_value(storage, ArbitraryKey, "Amount") = Ok(1)

\* C13, as claimed: with a total stake of zero at the current epoch, the
\* fractional stake of a stored voting power fails with InvalidState, and
\* delete returns that error to its caller.
C13_DeleteReturnsInvalidState ==
    [][\A id \in Ids :
        LET voting_power ==
                read_value(storage, Keys(id).voting_power, "EpochedVotingPower")
        IN  (Calls("delete", id) /\ total_stake = 0 /\ voting_power.ok)
            => /\ fractional_stake(voting_power.val, total_stake) = InvalidState
               /\ call'.res = InvalidState]_vars

\* C14: a delete that returns Some or None decides on the amounts of all
\* the recorded epochs summed, over the total stake of the current epoch:
\* it returns the payload exactly when 3 * sum > total, and it would return
\* the same for any other voting power with the same sum, however that sum
\* is split over epochs.
C14_DecisionOnTheSummedStake ==
    [][\A id \in Ids :
        (Calls("delete", id) /\ call'.res.ok)
        => LET key == Keys(id).voting_power
               stake == StoredStake(storage, id)
           IN  /\ (call'.res.val # None) = (3 * stake > total_stake)
               /\ \A other \in VotingPowers :
                     tallied_stake(other) = stake
                     => delete_outcome(
                            write_bytes(storage, key, SerVotingPower(other)),
                            Keys(id), total_stake).res = call'.res]_vars

\* In epoch 1, of total stake 3, the stored tally holds 1 for epoch 0 and 1
\* for epoch 1, each exactly 1/3: delete hands back its payload.
C14_Witness ==
    /\ current_epoch = 1
    /\ total_stake = 3
    /\ written[1] # {}
    /\ read_value(storage, Keys(1).voting_power, "EpochedVotingPower")
         = Ok([e \in {0, 1} |-> 1])
    /\ delete_outcome(storage, Keys(1), total_stake).res
         = Ok(Some(LastOf(written[1]).body))

\* C15: the committed storage changes only by the whole of a write call: a
\* query sees the tally as it was before the call or with every key the call
\* writes, also when one of its write_bytes fails.
C15_CommittedTallyAllOrNothing ==
    [][committed' # committed
       => \E p \in pending :
             committed' = write_storage(committed, Keys(p.id), p.body, p.tally,
                                        p.already_present, current_epoch)]_vars

\* write has returned the error of its third write_bytes: the body and the
\* seen flag it wrote are in the storage of the transition, and the
\* committed storage still reads the whole tally of the write before.
C15_Witness ==
    /\ call.op = "write"
    /\ call.res = StorageIoError
    /\ \E p \in pending : p.done = 2 /\ p.body = 1
    /\ read_body_value(storage, Keys(1)) = Ok(1)
    /\ read_body_value(committed, Keys(1)) = Ok(0)
    /\ read_tally(committed, Keys(1)).ok

\* C16: a write or a delete for an identity leaves every key of every other
\* identity as it was, present or absent, so read, read_body and
\* maybe_read_seen for the other identity return what they returned before.
C16_OtherIdentitiesUntouched ==
    [][\A id \in Ids :
        (Calls("write", id) \/ Calls("delete", id))
        => \A other \in Ids \ {id} :
              /\ \A f \in Fields :
                    /\ has_key(storage', Keys(other)[f])
                         = has_key(storage, Keys(other)[f])
                    /\ has_key(storage, Keys(other)[f])
                         => storage'[Keys(other)[f]] = storage[Keys(other)[f]]
              /\ read_tally(storage', Keys(other))
                   = read_tally(storage, Keys(other))
              /\ read_body_value(storage', Keys(other))
                   = read_body_value(storage, Keys(other))
              /\ maybe_read_seen_value(storage', Keys(other))
                   = maybe_read_seen_value(storage, Keys(other))]_vars

\* A tally was written for identity 2 while another was stored for
\* identity 1, and identity 1 reads back the tally and the body of its own
\* write.
C16_Witness ==
    /\ call.op = "write"
    /\ call.id = 2
    /\ written[1] # {}
    /\ written[2] # {}
    /\ LastOf(written[1]).tally # LastOf(written[2]).tally
    /\ ~LastOf(written[1]).rewritten
    /\ read_tally(storage, Keys(1)) = Ok(LastOf(written[1]).tally)
    /\ read_body_value(storage, Keys(1)) = Ok(0)
    /\ read_body_value(storage, Keys(2)) = Ok(1)

\* The keys read rebuilds a Tally from.
TallyFields == {"seen", "seen_by", "voting_power"}

\* C17: read fails whenever one of the seen, seen_by and voting_power keys
\* is absent, and a step that writes or deletes only the body key or the
\* voting_started_epoch key, whatever it leaves there, leaves the outcome
\* of read as it was.
C17_ReadDependsOnThreeKeys ==
    [][/\ (\E f \in TallyFields : ~has_key(storage', Keys(1)[f]))
          => ~read_tally(storage', Keys(1)).ok
       /\ (call'.id = 1 /\ call'.key \in Fields \ TallyFields)
          => read_tally(storage', Keys(1)) = read_tally(storage, Keys(1))]_vars

\* read gives a Tally while the body key is absent and the
\* voting_started_epoch key holds the four bytes of an i32.
C17_Witness ==
    /\ read_tally(storage, Keys(1)).ok
    /\ ~has_key(storage, Keys(1).body)
    /\ has_key(storage, Keys(1).voting_started_epoch)
    /\ storage[Keys(1).voting_started_epoch] = SerI32(21)

\* The step writes, with already_present = false, the tally of an identity
\* whose last tally a delete has just removed.
Recreates(id) ==
    /\ call.op = "delete"
    /\ call.id = id
    /\ call.res.ok
    /\ Calls("write", id)
    /\ ~call'.already_present

\* C18: a tally written with already_present = false right after the delete
\* of the identity's last tally is stored as a first tally is: it reads
\* back as written, voting_started_epoch is the current epoch, and a delete
\* of it returns its payload exactly when its own voting power exceeds 1/3,
\* whatever the delete before returned.
C18_RecreatedTallyStartsFromScratch ==
    [][\A id \in Ids :
        Recreates(id)
        => LET new == LastOf(written'[id])
               next == delete_outcome(storage', Keys(id), total_stake)
           IN  /\ storage' = write_storage(EmptyMap, Keys(id), new.body,
                                           new.tally, FALSE, current_epoch)
               /\ read_tally(storage', Keys(id)) = Ok(new.tally)
               /\ read_value(storage', Keys(id).voting_started_epoch, "u64")
                    = Ok(current_epoch)
               /\ total_stake > 0
                    => next.res
                         = IF 3 * tallied_stake(new.tally.voting_power)
                              > total_stake
                           THEN Ok(Some(new.body))
                           ELSE Ok(None)]_vars

\* In epoch 1 a delete has returned the payload of a tally above 1/3; the
\* write of a tally with exactly 1/3 for the same identity is its next
\* step, and the delete of what that write stores returns None.
C18_Witness ==
    /\ call.op = "delete"
    /\ call.id = 1
    /\ call.res = Ok(Some(0))
    /\ current_epoch = 1
    /\ total_stake = 3
    /\ ENABLED (/\ write(1, 0, Tally([e \in {0} |-> 1], [a \in {1} |-> 10],
                                     FALSE), FALSE)
                /\ read_value(storage', Keys(1).voting_started_epoch, "u64")
                     = Ok(1)
                /\ delete_outcome(storage', Keys(1), total_stake).res
                     = Ok(None))

\* The tally stored for id is no longer the one of its last write: an
\* update has changed its voting power since.
Diverged(id) == written[id] # {} /\ LastOf(written[id]).rewritten

\* C19: the operations go by what the storage holds as they are called, not
\* by the calls that came before. Of a tally whose voting power an update
\* has changed since its last write, read returns the updated voting power
\* and delete decides on it; a write stores for the identity what it would
\* store in an empty storage.
C19_OperationsGoByTheStorage ==
    [][\A id \in Ids :
        /\ (Calls("delete", id) /\ Diverged(id))
           => call'.res
                = IF 3 * StoredStake(storage, id) > total_stake
                  THEN Ok(Some(LastOf(written[id]).body))
                  ELSE Ok(None)
        /\ (Calls("value", id) /\ call'.res.ok)
           => read_tally(storage', Keys(id))
                = Ok([LastOf(written[id]).tally
                        EXCEPT !.voting_power = call'.res.val])
        /\ Calls("write", id)
           => LET new == LastOf(written'[id])
                  fresh == write_storage(EmptyMap, Keys(id), new.body, new.tally,
                                         call'.already_present, current_epoch)
              IN  \A f \in Fields :
                     /\ has_key(storage', Keys(id)[f])
                     /\ storage'[Keys(id)[f]] = fresh[Keys(id)[f]]]_vars

\* A tally written with exactly 1/3 of the stake has had its voting power
\* raised by an update: read returns the raised voting power, and delete is
\* the step that hands back the payload.
C19_Witness ==
    /\ total_stake = 3
    /\ Diverged(1)
    /\ LastOf(written[1]).tally.voting_power = [e \in {0} |-> 1]
    /\ read_tally(storage, Keys(1)).ok
    /\ read_tally(storage, Keys(1)).val.voting_power = [e \in {0} |-> 2]
    /\ ENABLED (delete(1) /\ call'.res = Ok(Some(0)))

\* The keys of a scan, in the order it yields them.
ScanKeys(s, prefix) ==
    LET pairs == iter_prefix_pairs(s, prefix).val
    IN  [i \in 1 .. Len(pairs) |-> pairs[i][1]]

\* C20: iter_prefix yields the stored pairs whose key lies under the prefix
\* and no other, each once, in increasing key order; for an identity with a
\* written tally these are its five keys, from body to
\* voting_started_epoch, and for an identity never written or deleted since
\* it yields nothing.
C20_IterPrefixYieldsTheIdentitysKeys ==
    \A prefix \in {0} \cup Ids :
        LET pairs == iter_prefix_pairs(storage, prefix).val
            under == {k \in DOMAIN storage : k[1] = prefix}
        IN  /\ {pairs[i] : i \in 1 .. Len(pairs)}
                 = {<<k, storage[k]>> : k \in under}
            /\ Len(pairs) = Cardinality(under)
            /\ \A i \in 1 .. Len(pairs) - 1 :
                  KeyLess(pairs[i][1], pairs[i + 1][1])
            /\ prefix \in Ids
                 => ScanKeys(storage, prefix)
                      = IF written[prefix] = {} THEN <<>>
                        ELSE [i \in 1 .. Len(FieldOrder) |->
                                Keys(prefix)[FieldOrder[i]]]

\* With the tally of identity 1 and the key of the updates stored, the
\* tally of identity 2 was deleted: the scan of 2 yields nothing, the scan
\* of 1 its five pairs.
C20_Witness ==
    /\ call.op = "delete"
    /\ call.id = 2
    /\ call.res.ok
    /\ has_key(storage, ArbitraryKey)
    /\ iter_prefix_pairs(storage, 2).val = <<>>
    /\ Len(iter_prefix_pairs(storage, 1).val) = 5
    /\ iter_prefix_pairs(storage, 1).val[4]
         = <<Keys(1).voting_power, storage[Keys(1).voting_power]>>

\* C21: a delete that fails while it evaluates the quorum leaves the storage
\* unchanged. With the voting_power key absent (never written, or deleted
\* by the call before, so that a second delete in a row fails), or with a
\* fraction above 1/3 and the body key absent, delete returns the NotFound
\* error and none of the five keys is deleted; whatever the error, a delete
\* that returns one has deleted nothing.
C21_FailedDeleteLeavesStorage ==
    [][\A id \in Ids :
        Calls("delete", id)
        => /\ ~has_key(storage, Keys(id).voting_power)
              => call'.res = NotFound /\ storage' = storage
           /\ (/\ quorum_now(storage, id, total_stake)
               /\ ~has_key(storage, Keys(id).body))
              => call'.res = NotFound /\ storage' = storage
           /\ (call.op = "delete" /\ call.id = id /\ call.res.ok)
              => call'.res = NotFound /\ storage' = storage
           /\ ~call'.res.ok => storage' = storage]_vars

\* A delete has just failed on the absent payload of a tally whose voting
\* power is above 1/3 of the stake: the four other keys are still stored.
C21_Witness ==
    /\ call.op = "delete"
    /\ call.res = NotFound
    /\ quorum_now(storage, 1, total_stake)
    /\ ~has_key(storage, Keys(1).body)
    /\ \A f \in Fields \ {"body"} : has_key(storage, Keys(1)[f])

\* C22: in every state reached through write and delete calls in which
\* already_present = true is passed only for an identity whose tally is
\* stored, the five keys of each identity are all present or all absent; a
\* stored tally has a voting_started_epoch, and it holds an epoch.
C22_FiveKeysAllOrNone ==
    \A id \in Ids :
        /\ \/ \A f \in Fields : has_key(storage, Keys(id)[f])
           \/ \A f \in Fields : ~has_key(storage, Keys(id)[f])
        /\ read_tally(storage, Keys(id)).ok
           => /\ has_key(storage, Keys(id).voting_started_epoch)
              /\ DeU64(storage[Keys(id).voting_started_epoch]).ok
              /\ DeU64(storage[Keys(id).voting_started_epoch]).val
                    \in 0 .. current_epoch

\* In epoch 1 a write with already_present = true has just updated a tally
\* created in epoch 0, after the tally of the other identity was deleted:
\* the one has its five keys and the epoch of its creation, the other none.
C22_Witness ==
    /\ call.op = "write"
    /\ call.already_present
    /\ current_epoch = 1
    /\ \A f \in Fields : has_key(storage, Keys(call.id)[f])
    /\ storage[Keys(call.id).voting_started_epoch] = SerU64(0)
    /\ \E id \in Ids \ {call.id} :
          /\ written[id] = {}
          /\ quorum_met[id]
          /\ \A f \in Fields : ~has_key(storage, Keys(id)[f])

====
